---- MODULE Spec2Model ----
(***************************************************************************)
(* Intent classifier sidecar of decibel-tools-mcp:                         *)
(*   src/src/ml/intent_classifier.py  (IntentClassifier, get_classifier)   *)
(*   src/src/ml/server.py             (ClassifierHandler, main)            *)
(*                                                                         *)
(* Numbers.  A float is modelled in fixed point, in units of 10^-5, so     *)
(* that round(x, 4) is a real conversion.  Cosine similarities are         *)
(* computed from integer vectors whose norms are integers, so that         *)
(* dot / (norm * norm) is exact in these units.                            *)
(*                                                                         *)
(* JSON.  A JSON value is a record [t, s, n]: t its type, s the payload    *)
(* of a string, n the payload of a number (units of 10^-5), of a bool      *)
(* (0/1) or the length of a list.  Absent marks a key a dict lacks.        *)
(*                                                                         *)
(* The field "ts" of a sample (intent_classifier.py:154, the wall clock)   *)
(* is written and never read by any operation; it is left out of a line.   *)
(***************************************************************************)
EXTENDS Integers, Sequences

VARIABLES
    emb,          \* the encoder: text -> vector (self.model.encode), fixed per process
    logExists,    \* whether the file training_samples.jsonl exists
    log,          \* the lines of training_samples.jsonl, in file order
    classifier,   \* server.py's global `classifier`: "None" until main() sets it
    req,          \* the request served last
    resp,         \* the response sent last
    encoded,      \* whether serving the last request called model.encode
    first,        \* transcript -> the first 200 answer /classify gave for it, and
                  \* whether the log held a line at that time (at: 0 none, 1 some)
    tail,         \* the JSON documents after the last newline of the log file
    pending,      \* the POST /log requests in flight: sent, not yet served
    singleton,    \* intent_classifier.py's global `_classifier`
    built,        \* how many times IntentClassifier.__init__ has run
    callers       \* the threads calling get_classifier: where each is, what it got

vars == <<emb, logExists, log, classifier, req, resp, encoded, first,
          tail, pending, singleton, built, callers>>

(***************************************************************************)
(* Bounds of the model.                                                    *)
(***************************************************************************)
\* the log holds at most this many lines (the code has no limit)
MaxLog == 2

(***************************************************************************)
(* JSON values.                                                            *)
(***************************************************************************)
JV(t, s, n) == [t |-> t, s |-> s, n |-> n]
Str(s) == JV("str", s, 0)
Num(n) == JV("num", "", n)
Bool(b) == JV("bool", "", IF b THEN 1 ELSE 0)
List(k) == JV("list", "", k)
Null == JV("null", "", 0)
Absent == JV("absent", "", 0)

\* dict.get(key, default)
Get(d, key, default) == IF d[key] = Absent THEN default ELSE d[key]

\* Python truth value: `not transcript`, `if sample.get("correct")`
Truthy(v) ==
    CASE v.t = "str" -> v.s # ""
      [] v.t = "num" -> v.n # 0
      [] v.t = "bool" -> v.n = 1
      [] v.t = "list" -> v.n > 0
      [] OTHER -> FALSE

\* a value can be a dict key (`label not in by_intent`): a list cannot
Hashable(v) == v.t # "list"

\* round(confidence, 4) is defined for numbers (and bools); None, str, list raise TypeError
RoundDefined(v) == v.t \in {"num", "bool"}

\* round(x, 4) of x in units of 10^-5: the nearest multiple of 10^-4, a tie to even
round4(n) ==
    LET q == n \div 10
        r == n % 10
    IN  IF r < 5 THEN 10 * q
        ELSE IF r > 5 THEN 10 * (q + 1)
        ELSE IF q % 2 = 0 THEN 10 * q ELSE 10 * (q + 1)

\* round(v, 4) of a JSON number; round(True, 4) is the int 1
RoundJV(v) == IF v.t = "bool" THEN Num(v.n * 100000) ELSE Num(round4(v.n))

(***************************************************************************)
(* The feedback log.  A line is [kind, transcript, user_label, predicted,  *)
(* confidence, correct, was_overridden]: kind "object" is a line that      *)
(* json.loads parses to a dict, "nonobject" one it parses to a list,       *)
(* number, string or null, "garbage" one it rejects.                       *)
(***************************************************************************)
Line(kind, transcript, user_label, predicted, confidence, correct, was_overridden) ==
    [kind |-> kind, transcript |-> transcript, user_label |-> user_label,
     predicted |-> predicted, confidence |-> confidence, correct |-> correct,
     was_overridden |-> was_overridden]

GarbageLine == Line("garbage", Absent, Absent, Absent, Absent, Absent, Absent)
NonObjectLine == Line("nonobject", Absent, Absent, Absent, Absent, Absent, Absent)

\* log_sample lines 147-155 and json.dumps: the line written for a sample
Sample(transcript, user_label, predicted, confidence, was_overridden) ==
    Line("object", transcript, user_label, predicted, RoundJV(confidence),
         Bool(user_label = predicted), was_overridden)

\* a line holding these JSON documents: two documents on one line are no JSON
\* (json.loads raises "Extra data")
JoinLine(docs) == IF Len(docs) = 1 THEN docs[1] ELSE GarbageLine

\* log_sample line 158 without the newline
WrittenTextNoNewline(sample) == [doc |-> sample, newline |-> FALSE]

\* log_sample line 158: the text written, json.dumps(sample) + "\n"
WrittenText(sample) == [doc |-> sample, newline |-> TRUE]

\* the file [lines, tail] after open(path, "a"), write(text), close: the text goes
\* to the end of the file in one write
AppendText(lines, tl, text) ==
    IF text.newline
    THEN [lines |-> Append(lines, JoinLine(Append(tl, text.doc))), tail |-> <<>>]
    ELSE [lines |-> lines, tail |-> Append(tl, text.doc)]

\* `for line in f`, line 170: the lines of the file, an unterminated last one included
FileLines(lines, tl) == IF tl = <<>> THEN lines ELSE Append(lines, JoinLine(tl))

\* get_training_stats lines 165-167
StatsZero == [total |-> 0, correct |-> 0, by_intent |-> <<>>]

\* by_intent[label][field] += 1, the entry created at {total: 0, correct: 0} if absent
Bump(by_intent, label, dt, dc) ==
    LET old == IF label \in DOMAIN by_intent THEN by_intent[label]
               ELSE [total |-> 0, correct |-> 0]
    IN  [k \in (DOMAIN by_intent) \cup {label} |->
            IF k = label THEN [total |-> old.total + dt, correct |-> old.correct + dc]
            ELSE by_intent[k]]

\* StatsLine with by_intent keyed by `predicted` instead of `user_label`
StatsLineByPredicted(acc, line) ==
    IF line.kind = "garbage" THEN acc
    ELSE IF line.kind = "nonobject" THEN [acc EXCEPT !.total = @ + 1]
    ELSE
        LET isCorrect == Truthy(Get(line, "correct", Absent))
            label == Get(line, "predicted", Str("unknown"))
            a1 == [acc EXCEPT !.total = @ + 1,
                              !.correct = @ + (IF isCorrect THEN 1 ELSE 0)]
        IN  IF ~Hashable(label) THEN a1
            ELSE [a1 EXCEPT !.by_intent =
                     Bump(@, label, 1, IF isCorrect THEN 1 ELSE 0)]

\* StatsLine that also gives `predicted` an entry in by_intent
StatsLineBothLabels(acc, line) ==
    IF line.kind = "garbage" THEN acc
    ELSE IF line.kind = "nonobject" THEN [acc EXCEPT !.total = @ + 1]
    ELSE
        LET isCorrect == Truthy(Get(line, "correct", Absent))
            label == Get(line, "user_label", Str("unknown"))
            other == Get(line, "predicted", Str("unknown"))
            a1 == [acc EXCEPT !.total = @ + 1,
                              !.correct = @ + (IF isCorrect THEN 1 ELSE 0)]
        IN  IF ~Hashable(label) \/ ~Hashable(other) THEN a1
            ELSE [a1 EXCEPT !.by_intent =
                     Bump(Bump(@, label, 1, IF isCorrect THEN 1 ELSE 0), other, 0, 0)]

\* the body of the loop of get_training_stats, lines 171-184, on one line:
\* each assignment made before an exception is kept, the bare except drops the rest
StatsLine(acc, line) ==
    IF line.kind = "garbage" THEN acc                               \* json.loads raises
    ELSE IF line.kind = "nonobject"
         THEN [acc EXCEPT !.total = @ + 1]                          \* then .get raises
    ELSE
        LET isCorrect == Truthy(Get(line, "correct", Absent))
            label == Get(line, "user_label", Str("unknown"))
            a1 == [acc EXCEPT !.total = @ + 1,
                              !.correct = @ + (IF isCorrect THEN 1 ELSE 0)]
        IN  IF ~Hashable(label) THEN a1                             \* TypeError: unhashable
            ELSE [a1 EXCEPT !.by_intent =
                     Bump(@, label, 1, IF isCorrect THEN 1 ELSE 0)]

RECURSIVE StatsScan(_, _)
StatsScan(acc, lines) ==
    IF lines = <<>> THEN acc
    ELSE StatsScan(StatsLine(acc, Head(lines)), Tail(lines))

\* round(correct / total, 3), in units of 10^-3 (no tie below 16 lines)
round3(correct, total) == (2000 * correct + total) \div (2 * total)

\* the counters of get_training_stats when its loop ends, lines 162-184
StatsCounts(exists, lines) ==
    IF ~exists THEN StatsZero ELSE StatsScan(StatsZero, lines)

\* get_training_stats: the dict it returns, lines 163 and 186-190
get_training_stats(exists, lines) ==
    LET s == StatsCounts(exists, lines)
    IN  [total |-> s.total,
         accuracy |-> IF s.total > 0 THEN round3(s.correct, s.total) ELSE 0,
         by_intent |-> s.by_intent]

(***************************************************************************)
(* The encoder and the catalog.                                            *)
(***************************************************************************)
\* self.examples, lines 26-93: intent -> phrases, in declaration order (a dict keeps
\* insertion order).  The model keeps the first three intents of the seven and their
\* first phrases; classify treats every intent and every phrase alike.
examples ==
    << [intent |-> "add_wish", phrases |-> <<"I wish we had", "would be nice if">>],
       [intent |-> "log_issue", phrases |-> <<"there's a bug">>],
       [intent |-> "log_friction", phrases |-> <<"annoying that">>] >>

Phrases == UNION {{examples[i].phrases[j] : j \in DOMAIN examples[i].phrases} :
                  i \in DOMAIN examples}

Intents == {examples[i].intent : i \in DOMAIN examples}

\* a transcript that is no seed phrase
OtherText == "there's a bug in checkout"

Texts == Phrases \cup {OtherText}

\* the vectors an encoding is drawn from: integer norms 0, 5 and 10
Vecs == {<<0, 0>>, <<5, 0>>, <<0, 5>>, <<3, 4>>, <<4, 3>>, <<-5, 0>>, <<-3, -4>>, <<6, 8>>}

\* np.dot of two vectors
Dot(a, b) == a[1] * b[1] + a[2] * b[2]

\* np.linalg.norm: the square root, exact on Vecs
Norm(v) == CHOOSE r \in 0..10 : r * r = Dot(v, v)

\* the float nan (0/0 of numpy: a warning, no exception)
NaN == -999999

\* one entry of sims, lines 123-125, in units of 10^-5
CosineSim(a, b) ==
    IF Norm(a) * Norm(b) = 0 THEN NaN
    ELSE (Dot(a, b) * 100000) \div (Norm(a) * Norm(b))

\* a > b on floats: false when either is nan
FloatGt(a, b) == a # NaN /\ b # NaN /\ a > b

\* np.max of a non-empty array: nan if any entry is nan
NpMax(sims) ==
    IF \E j \in DOMAIN sims : sims[j] = NaN THEN NaN
    ELSE CHOOSE m \in {sims[j] : j \in DOMAIN sims} :
            \A j \in DOMAIN sims : m >= sims[j]

\* the mean of the entries (what max-aggregation is not)
NpMean(sims) ==
    IF \E j \in DOMAIN sims : sims[j] = NaN THEN NaN
    ELSE LET RECURSIVE Sum(_)
             Sum(k) == IF k = 0 THEN 0 ELSE sims[k] + Sum(k - 1)
         IN  Sum(Len(sims)) \div Len(sims)

\* self.example_embeddings, lines 96-99: the phrases of every intent, encoded
example_embeddings ==
    [i \in DOMAIN examples |->
        [intent |-> examples[i].intent,
         embs |-> [j \in DOMAIN examples[i].phrases |-> emb[examples[i].phrases[j]]]]]

\* sims of one intent, lines 123-125
Sims(example_embs, e) == [j \in DOMAIN example_embs |-> CosineSim(example_embs[j], e)]

\* MaxSim with the mean of the similarities instead of their maximum
MaxSimMean(example_embs, e) == NpMean(Sims(example_embs, e))

\* max_sim of one intent, line 126
MaxSim(example_embs, e) == NpMax(Sims(example_embs, e))

\* one turn of the loop with `>=` for the `>` of line 128
ClassifyStepNotLess(best, entry, e) ==
    LET max_sim == MaxSim(entry.embs, e)
    IN  IF FloatGt(max_sim, best.score) \/ max_sim = best.score
        THEN [intent |-> entry.intent, score |-> max_sim]
        ELSE best

\* one turn of the loop of classify, lines 121-130
ClassifyStep(best, entry, e) ==
    LET max_sim == MaxSim(entry.embs, e)
    IN  IF FloatGt(max_sim, best.score)
        THEN [intent |-> entry.intent, score |-> max_sim]
        ELSE best

RECURSIVE ClassifyScan(_, _, _)
ClassifyScan(best, entries, e) ==
    IF entries = <<>> THEN best
    ELSE ClassifyScan(ClassifyStep(best, Head(entries), e), Tail(entries), e)

\* classify, lines 116-132: (best_intent, best_score) for an encodable transcript
classify(transcript) ==
    ClassifyScan([intent |-> "unknown", score |-> 0], example_embeddings, emb[transcript])

(***************************************************************************)
(* Requests and responses.                                                 *)
(***************************************************************************)
\* the request body after `int(Content-Length)`, `rfile.read` and `json.loads`:
\* kind "invalid" is a body (or a Content-Length) on which these raise, "nonobject" a
\* JSON list, number, string or null, "object" a JSON object with the keys it carries
Body(kind, transcript, user_label, predicted, confidence, was_overridden) ==
    [kind |-> kind, transcript |-> transcript, user_label |-> user_label,
     predicted |-> predicted, confidence |-> confidence,
     was_overridden |-> was_overridden]

NoBody == Body("none", Absent, Absent, Absent, Absent, Absent)
InvalidBody == Body("invalid", Absent, Absent, Absent, Absent, Absent)
NonObjectBody == Body("nonobject", Absent, Absent, Absent, Absent, Absent)

\* the bodies sent to /classify
ClassifyBodies ==
    {InvalidBody, NonObjectBody} \cup
    {Body("object", t, Absent, Absent, Absent, Absent) :
        t \in {Absent, Null, Str(""), Str(OtherText)}}

\* the bodies sent to /log: intents of the catalog and a label that is none, keys
\* left out, JSON lists as labels, confidences that are numbers, null and a string
LogBodies ==
    {InvalidBody, NonObjectBody,
     Body("object", Str("broken"), Absent, Absent, Absent, Absent),
     Body("object", Str("broken"), Str("add_wish"), Str("add_wish"), Num(91237), Absent),
     Body("object", Str("broken"), Str("add_wish"), Str("log_issue"), Num(91237), Bool(TRUE)),
     Body("object", Str("broken"), Str("retired_label"), Str("add_wish"), Num(12344), Absent),
     Body("object", Str("broken"), List(1), List(1), Num(91237), Absent),
     Body("object", Str("broken"), Str("add_wish"), Str("log_issue"), Null, Bool(TRUE)),
     Body("object", Str("broken"), Str("add_wish"), Str("add_wish"), Str("high"), Absent)}

Request(method, path, body, diskOk, encOk) ==
    [method |-> method, path |-> path, body |-> body, diskOk |-> diskOk, encOk |-> encOk]

NoRequest == Request("", "", NoBody, TRUE, TRUE)

\* _send_json(status, data): what the client receives
Response(status, kind, error, intent, confidence, stats) ==
    [status |-> status, kind |-> kind, error |-> error, intent |-> intent,
     confidence |-> confidence, stats |-> stats]

NoStats == get_training_stats(FALSE, <<>>)
NoResponse == Response(0, "", "", "", 0, NoStats)
ErrorResponse(status, error) == Response(status, "error", error, "", 0, NoStats)

NoResult == [intent |-> "", confidence |-> 0, at |-> 0]

(***************************************************************************)
(* The singleton of intent_classifier.py.                                  *)
(***************************************************************************)
\* data_root: None (the option is not given), the empty string, or a directory
NoRoot == "None"
DataRoots == {NoRoot, "", "/data"}

\* the threads that call get_classifier
NumThreads == 2
Threads == 1..NumThreads

\* `_classifier: Optional[IntentClassifier] = None`, line 194
NoInstance == [id |-> 0, data_root |-> NoRoot, training_log |-> <<>>]

\* self.training_log, lines 102-105
TrainingLogPath(data_root) ==
    IF data_root \notin {NoRoot, ""}                       \* `if data_root:`
    THEN <<data_root, ".decibel", "ml", "training_samples.jsonl">>
    ELSE <<".decibel", "ml", "training_samples.jsonl">>

\* IntentClassifier(data_root), lines 21-106: the id-th instance built
IntentClassifier(data_root, id) ==
    [id |-> id, data_root |-> data_root, training_log |-> TrainingLogPath(data_root)]

\* a thread that is not in get_classifier; ret is what its last call returned
Caller(pc, data_root, ret) == [pc |-> pc, data_root |-> data_root, ret |-> ret]
IdleCaller == Caller("idle", NoRoot, NoInstance)

(***************************************************************************)
(* The handlers of server.py.                                              *)
(***************************************************************************)
\* the answer of lines 46-51 with a confidence that drifts with the size of the log
ClassifyAnswerDrift(transcript) ==
    LET r == classify(transcript.s)
    IN  [intent |-> r.intent, confidence |-> round4(r.score) + 10 * Len(log)]

\* _handle_classify, lines 46-51: classify, and the confidence rounded for the answer
ClassifyAnswer(transcript) ==
    LET r == classify(transcript.s)
    IN  [intent |-> r.intent, confidence |-> round4(r.score)]

\* lines 42-44 with the transcript encoded before it is looked at
RejectMissingLate ==
    /\ resp' = ErrorResponse(400, "Missing transcript")
    /\ encoded' = TRUE
    /\ UNCHANGED first

\* _handle_classify, lines 42-44: no transcript, no call of the classifier
RejectMissing ==
    /\ resp' = ErrorResponse(400, "Missing transcript")
    /\ encoded' = FALSE
    /\ UNCHANGED first

\* _handle_classify, lines 36-53
handle_classify(body, encOk) ==
    IF body.kind = "invalid"
    THEN /\ resp' = ErrorResponse(500, "JSONDecodeError")            \* lines 38-39
         /\ encoded' = FALSE
         /\ UNCHANGED first
    ELSE IF body.kind = "nonobject"
    THEN /\ resp' = ErrorResponse(500, "AttributeError")             \* body.get, line 41
         /\ encoded' = FALSE
         /\ UNCHANGED first
    ELSE LET transcript == Get(body, "transcript", Str(""))
         IN  IF ~Truthy(transcript)
             THEN RejectMissing
             ELSE /\ encoded' = TRUE
                  /\ IF ~encOk
                     THEN /\ resp' = ErrorResponse(500, "EncodeError") \* encode, line 116
                          /\ UNCHANGED first
                     ELSE LET out == ClassifyAnswer(transcript)
                          IN  /\ resp' = Response(200, "classification", "",
                                                  out.intent, out.confidence, NoStats)
                              /\ first' = IF first[transcript.s] = NoResult
                                          THEN [first EXCEPT ![transcript.s] =
                                                   [intent |-> out.intent,
                                                    confidence |-> out.confidence,
                                                    at |-> IF log = <<>> THEN 0 ELSE 1]]
                                          ELSE first

\* log_sample with the file opened in mode "w"
log_sample_truncating(transcript, user_label, predicted, confidence, was_overridden) ==
    AppendText(<<>>, <<>>,
        WrittenText(Sample(transcript, user_label, predicted, confidence, was_overridden)))

\* log_sample, lines 147-158: the file [lines, tail] it leaves
log_sample(transcript, user_label, predicted, confidence, was_overridden) ==
    AppendText(log, tail,
        WrittenText(Sample(transcript, user_label, predicted, confidence, was_overridden)))

\* the defaults of lines 61-65 with the empty string for a label left out
LogDefaultsEmptyLabel ==
    [transcript |-> Str(""), user_label |-> Str(""), predicted |-> Str("unknown"),
     confidence |-> Num(0), was_overridden |-> Bool(FALSE)]

\* _handle_log, lines 61-65: the value of each key the body lacks
LogDefaults ==
    [transcript |-> Str(""), user_label |-> Str("unknown"), predicted |-> Str("unknown"),
     confidence |-> Num(0), was_overridden |-> Bool(FALSE)]

\* with the file opened in mode "w", a write that fails leaves an empty file
WriteFailureTruncating(lines) == <<>>

\* lines 157-158 raising OSError: the lines of the file afterwards
WriteFailure(lines) == lines

\* _handle_log, lines 55-70.  A write that fails leaves no byte in the file; the
\* file exists afterwards if open() got as far as creating it.
handle_log(body, diskOk) ==
    IF body.kind = "invalid"
    THEN /\ resp' = ErrorResponse(500, "JSONDecodeError")            \* lines 57-58
         /\ UNCHANGED <<log, tail, logExists>>
    ELSE IF body.kind = "nonobject"
    THEN /\ resp' = ErrorResponse(500, "AttributeError")             \* body.get, line 61
         /\ UNCHANGED <<log, tail, logExists>>
    ELSE LET confidence == Get(body, "confidence", LogDefaults.confidence)
         IN  IF ~RoundDefined(confidence)
             THEN /\ resp' = ErrorResponse(500, "TypeError")          \* round(), line 151
                  /\ UNCHANGED <<log, tail, logExists>>
             ELSE IF ~diskOk
             THEN /\ resp' = ErrorResponse(500, "OSError")            \* lines 157-158
                  /\ logExists' \in {logExists, TRUE}
                  /\ log' = WriteFailure(log)
                  /\ UNCHANGED tail
             ELSE LET file == log_sample(
                                Get(body, "transcript", LogDefaults.transcript),
                                Get(body, "user_label", LogDefaults.user_label),
                                Get(body, "predicted", LogDefaults.predicted),
                                confidence,
                                Get(body, "was_overridden", LogDefaults.was_overridden))
                  IN  /\ Len(log) + Len(tail) < MaxLog
                      /\ log' = file.lines
                      /\ tail' = file.tail
                      /\ logExists' = TRUE
                      /\ resp' = Response(200, "logged", "", "", 0, NoStats)

\* the outcome of the encoder (of the write) is an input of a request only when the
\* request gets as far as line 46 (line 157)
ReachesEncoder(body) ==
    body.kind = "object" /\ Truthy(Get(body, "transcript", Str("")))

ReachesWrite(body) ==
    body.kind = "object" /\ RoundDefined(Get(body, "confidence", LogDefaults.confidence))

\* main, lines 94-102: the classifier is built, then the server serves
Main ==
    /\ classifier = "None"
    /\ classifier' = "loaded"
    /\ singleton = NoInstance
    /\ singleton' = IntentClassifier(NoRoot, built + 1)
    /\ built' = built + 1
    /\ UNCHANGED <<emb, logExists, log, tail, req, resp, encoded, first, pending, callers>>

\* do_POST, lines 21-22
PostClassify ==
    /\ classifier = "loaded"
    /\ \E body \in ClassifyBodies, encOk \in BOOLEAN :
          /\ ReachesEncoder(body) \/ encOk
          /\ req' = Request("POST", "/classify", body, TRUE, encOk)
          /\ handle_classify(body, encOk)
    /\ UNCHANGED <<emb, logExists, log, tail, classifier, pending, singleton, built, callers>>

\* do_POST, lines 23-24
PostLog ==
    /\ classifier = "loaded"
    /\ \E body \in LogBodies, diskOk \in BOOLEAN :
          /\ ReachesWrite(body) \/ diskOk
          /\ req' = Request("POST", "/log", body, diskOk, TRUE)
          /\ handle_log(body, diskOk)
    /\ encoded' = FALSE
    /\ UNCHANGED <<emb, classifier, first, pending, singleton, built, callers>>

\* do_POST, lines 25-26
PostNotFound ==
    /\ classifier = "loaded"
    /\ \E path \in {"/stats", "/other"} :
          req' = Request("POST", path, NoBody, TRUE, TRUE)
    /\ resp' = ErrorResponse(404, "Not found")
    /\ encoded' = FALSE
    /\ UNCHANGED <<emb, logExists, log, tail, classifier, first,
                   pending, singleton, built, callers>>

\* do_GET, lines 29-30
GetHealth ==
    /\ classifier = "loaded"
    /\ req' = Request("GET", "/health", NoBody, TRUE, TRUE)
    /\ resp' = Response(200, "health", "", "", 0, NoStats)
    /\ encoded' = FALSE
    /\ UNCHANGED <<emb, logExists, log, tail, classifier, first,
                   pending, singleton, built, callers>>

\* do_GET, lines 31-32
GetStats ==
    /\ classifier = "loaded"
    /\ req' = Request("GET", "/stats", NoBody, TRUE, TRUE)
    /\ resp' = Response(200, "stats", "", "", 0,
                        get_training_stats(logExists, FileLines(log, tail)))
    /\ encoded' = FALSE
    /\ UNCHANGED <<emb, logExists, log, tail, classifier, first,
                   pending, singleton, built, callers>>

\* do_GET, lines 33-34
GetNotFound ==
    /\ classifier = "loaded"
    /\ \E path \in {"/classify", "/other"} :
          req' = Request("GET", path, NoBody, TRUE, TRUE)
    /\ resp' = ErrorResponse(404, "Not found")
    /\ encoded' = FALSE
    /\ UNCHANGED <<emb, logExists, log, tail, classifier, first,
                   pending, singleton, built, callers>>

\* class ClassifierHandler(BaseHTTPRequestHandler), lines 19-34: the class defines
\* do_POST and do_GET and no other do_<METHOD>; for a method without one the base
\* class answers 501 itself and calls nothing of server.py
OtherMethods == {"PUT"}

Unsupported ==
    /\ classifier = "loaded"
    /\ \E method \in OtherMethods, path \in {"/classify", "/other"} :
          req' = Request(method, path, NoBody, TRUE, TRUE)
    /\ resp' = ErrorResponse(501, "Unsupported method")
    /\ encoded' = FALSE
    /\ UNCHANGED <<emb, logExists, log, tail, classifier, first,
                   pending, singleton, built, callers>>

(***************************************************************************)
(* The service: the process starts on a log file left by earlier runs.     *)
(***************************************************************************)
\* an encoder gives every seed phrase a non-zero vector and no two seed phrases
\* vectors of the same direction
IsEncoder(f) ==
    /\ \A p \in Phrases : f[p] # <<0, 0>>
    /\ \A p, q \in Phrases : p # q => CosineSim(f[p], f[q]) # 100000

Encoders == {f \in [Texts -> Vecs] : IsEncoder(f)}

\* the encoders of the service runs: the seed phrases fixed, the other transcript
\* along a seed phrase or against every seed phrase
ServerEncoders ==
    {[t \in Texts |->
        CASE t = "I wish we had" -> <<5, 0>>
          [] t = "would be nice if" -> <<4, 3>>
          [] t = "there's a bug" -> <<3, 4>>
          [] t = "annoying that" -> <<0, 5>>
          [] OTHER -> v] : v \in {<<6, 8>>, <<-3, -4>>}}

\* the lines a log file holds at start: written by an earlier run, or damaged
InitLines ==
    {GarbageLine, NonObjectLine,
     Sample(Str("broken"), Str("add_wish"), Str("add_wish"), Num(91237), Bool(FALSE))}

\* the log files at start hold at most this many lines
MaxInitLog == 1

InitLogs == UNION {[1..n -> InitLines] : n \in 0..MaxInitLog}

Init ==
    /\ emb \in ServerEncoders
    /\ log \in InitLogs
    /\ logExists \in BOOLEAN
    /\ (log # <<>> => logExists)
    /\ classifier = "None"
    /\ req = NoRequest
    /\ resp = NoResponse
    /\ encoded = FALSE
    /\ first = [t \in Texts |-> NoResult]
    /\ tail = <<>>
    /\ pending = <<>>
    /\ singleton = NoInstance
    /\ built = 0
    /\ callers = [t \in Threads |-> IdleCaller]

Next ==
    \/ Main
    \/ PostClassify
    \/ PostLog
    \/ PostNotFound
    \/ GetHealth
    \/ GetStats
    \/ GetNotFound
    \/ Unsupported

Spec == Init /\ [][Next]_vars

(***************************************************************************)
(* POST /log requests in flight.  HTTPServer (server.py line 97) is the     *)
(* single-threaded server: connections wait in the listening socket and    *)
(* serve_forever (line 102) runs the handler of one to its end before it    *)
(* takes the next.                                                         *)
(***************************************************************************)
\* at most this many requests are in flight
MaxInFlight == 2

\* the bodies of the requests in flight: all defaults, differing labels, and a
\* confidence that round() rejects
InFlightBodies ==
    {Body("object", Str("broken"), Absent, Absent, Absent, Absent),
     Body("object", Str("broken"), Str("add_wish"), Str("log_issue"), Num(91237), Bool(TRUE)),
     Body("object", Str("broken"), Str("add_wish"), Str("log_issue"), Null, Bool(TRUE))}

\* a client sends POST /log; the request waits for the server
SendLog ==
    /\ classifier = "loaded"
    /\ Len(pending) < MaxInFlight
    /\ \E body \in InFlightBodies, diskOk \in BOOLEAN :
          /\ (~diskOk => ReachesWrite(body))
          /\ pending' = Append(pending, [body |-> body, diskOk |-> diskOk])
    /\ UNCHANGED <<emb, logExists, log, tail, classifier, req, resp, encoded, first,
                   singleton, built, callers>>

\* serve_forever takes the oldest request in flight and runs do_POST, lines 20-24
ServeLog ==
    /\ classifier = "loaded"
    /\ pending # <<>>
    /\ req' = Request("POST", "/log", Head(pending).body, Head(pending).diskOk, TRUE)
    /\ handle_log(Head(pending).body, Head(pending).diskOk)
    /\ pending' = Tail(pending)
    /\ encoded' = FALSE
    /\ UNCHANGED <<emb, classifier, first, singleton, built, callers>>

\* the service after main() has built the classifier, line 94
InitServing ==
    /\ emb \in ServerEncoders
    /\ log \in InitLogs
    /\ logExists \in BOOLEAN
    /\ (log # <<>> => logExists)
    /\ classifier = "loaded"
    /\ req = NoRequest
    /\ resp = NoResponse
    /\ encoded = FALSE
    /\ first = [t \in Texts |-> NoResult]
    /\ tail = <<>>
    /\ pending = <<>>
    /\ singleton = IntentClassifier(NoRoot, 1)
    /\ built = 1
    /\ callers = [t \in Threads |-> IdleCaller]

NextInFlight ==
    \/ SendLog
    \/ ServeLog

SpecInFlight == InitServing /\ [][NextInFlight]_vars

(***************************************************************************)
(* get_classifier, lines 196-201, called by the threads of a process.  The  *)
(* function holds no lock: between the test of line 199, the constructor    *)
(* and assignment of line 200 and the read of line 201 another thread runs. *)
(***************************************************************************)
\* line 199: `if _classifier is None`, in a call get_classifier(data_root)
Check(t) ==
    /\ callers[t].pc = "idle"
    /\ \E data_root \in DataRoots :
          callers' = [callers EXCEPT ![t] =
                         Caller(IF singleton = NoInstance THEN "build" ELSE "return",
                                data_root, @.ret)]
    /\ UNCHANGED <<emb, logExists, log, tail, classifier, req, resp, encoded, first,
                   pending, singleton, built>>

\* line 200: `_classifier = IntentClassifier(data_root)`
Build(t) ==
    /\ callers[t].pc = "build"
    /\ built' = built + 1
    /\ singleton' = IntentClassifier(callers[t].data_root, built + 1)
    /\ callers' = [callers EXCEPT ![t] = Caller("return", @.data_root, @.ret)]
    /\ UNCHANGED <<emb, logExists, log, tail, classifier, req, resp, encoded, first,
                   pending>>

\* line 201: `return _classifier`
Return(t) ==
    /\ callers[t].pc = "return"
    /\ callers' = [callers EXCEPT ![t] = Caller("idle", @.data_root, singleton)]
    /\ UNCHANGED <<emb, logExists, log, tail, classifier, req, resp, encoded, first,
                   pending, singleton, built>>

\* a process that has imported the module: no instance yet, nothing served
InitSingleton ==
    /\ emb \in ServerEncoders
    /\ log = <<>>
    /\ logExists = FALSE
    /\ classifier = "None"
    /\ req = NoRequest
    /\ resp = NoResponse
    /\ encoded = FALSE
    /\ first = [t \in Texts |-> NoResult]
    /\ tail = <<>>
    /\ pending = <<>>
    /\ singleton = NoInstance
    /\ built = 0
    /\ callers = [t \in Threads |-> IdleCaller]

NextSingleton ==
    \/ \E t \in Threads : Check(t)
    \/ \E t \in Threads : Build(t)
    \/ \E t \in Threads : Return(t)

SpecSingleton == InitSingleton /\ [][NextSingleton]_vars

(***************************************************************************)
(* classify as a function: every encoder, every transcript.                *)
(***************************************************************************)
\* classifier.classify(transcript), lines 108-132, called on its own
CallClassify ==
    /\ \E t \in Texts :
          /\ req' = Request("CALL", "classify",
                            Body("object", Str(t), Absent, Absent, Absent, Absent),
                            TRUE, TRUE)
          /\ resp' = Response(200, "classify", "", classify(t).intent,
                              classify(t).score, NoStats)
    /\ encoded' = TRUE
    /\ UNCHANGED <<emb, logExists, log, tail, classifier, first,
                   pending, singleton, built, callers>>

InitClassify ==
    /\ emb \in Encoders
    /\ log = <<>>
    /\ logExists = FALSE
    /\ classifier = "loaded"
    /\ req = NoRequest
    /\ resp = NoResponse
    /\ encoded = FALSE
    /\ first = [t \in Texts |-> NoResult]
    /\ tail = <<>>
    /\ pending = <<>>
    /\ singleton = IntentClassifier(NoRoot, 1)
    /\ built = 1
    /\ callers = [t \in Threads |-> IdleCaller]

NextClassify == CallClassify

SpecClassify == InitClassify /\ [][NextClassify]_vars

(***************************************************************************)
(* classify on transcripts that lie between seed phrases: encoders whose    *)
(* vectors mirror one another, so that two intents can have the same score. *)
(***************************************************************************)
MirrorVecs == {<<5, 0>>, <<4, 3>>, <<4, -3>>, <<0, 5>>, <<0, -5>>, <<-5, 0>>}

MirrorEncoders == {f \in [Texts -> MirrorVecs] : IsEncoder(f)}

InitTies ==
    /\ emb \in MirrorEncoders
    /\ log = <<>>
    /\ logExists = FALSE
    /\ classifier = "loaded"
    /\ req = NoRequest
    /\ resp = NoResponse
    /\ encoded = FALSE
    /\ first = [t \in Texts |-> NoResult]
    /\ tail = <<>>
    /\ pending = <<>>
    /\ singleton = IntentClassifier(NoRoot, 1)
    /\ built = 1
    /\ callers = [t \in Threads |-> IdleCaller]

NextTies == CallClassify

SpecTies == InitTies /\ [][NextTies]_vars

(***************************************************************************)
(* Properties.                                                             *)
(***************************************************************************)
\* by_intent[label], or the entry a first sample of the label starts from
Entry(by_intent, label) ==
    IF label \in DOMAIN by_intent THEN by_intent[label] ELSE [total |-> 0, correct |-> 0]

IsPost(r, path) == r.method = "POST" /\ r.path = path

\* the label a /log body gives log_sample
UserLabel(body) == Get(body, "user_label", Str("unknown"))
Predicted(body) == Get(body, "predicted", Str("unknown"))

\* C1: logging round trip.  A step that appends a sample s whose labels are strings
\* raises get_training_stats()["total"] by exactly 1 and by_intent[s.user_label]
\* ["total"] by exactly 1 (from 0 if the label is new), and raises the two correct
\* counts by 1 if s.user_label = s.predicted and leaves them unchanged otherwise,
\* whatever the log held before.
C1_LogRoundTrip ==
    [][ (/\ IsPost(req', "/log")
         /\ resp'.status = 200
         /\ UserLabel(req'.body).t = "str"
         /\ Predicted(req'.body).t = "str")
        =>
        LET u == UserLabel(req'.body)
            hit == IF u = Predicted(req'.body) THEN 1 ELSE 0
            before == StatsCounts(logExists, log)
            after == StatsCounts(logExists', log')
        IN  /\ get_training_stats(logExists', log').total
                  = get_training_stats(logExists, log).total + 1
            /\ u \in DOMAIN get_training_stats(logExists', log').by_intent
            /\ Entry(after.by_intent, u).total = Entry(before.by_intent, u).total + 1
            /\ after.correct = before.correct + hit
            /\ Entry(after.by_intent, u).correct
                  = Entry(before.by_intent, u).correct + hit ]_vars

\* C1 witness: a sample with differing string labels was appended to a log that
\* already held a line of the same user_label
C1_Witness ==
    /\ IsPost(req, "/log")
    /\ resp.status = 200
    /\ UserLabel(req.body) = Str("add_wish")
    /\ Predicted(req.body) = Str("log_issue")
    /\ Len(log) = 2
    /\ log[1].user_label = Str("add_wish")

\* a line json.loads rejects, or parses to something that is no JSON object
Malformed(line) == line.kind # "object"

ValidLines(lines) == SelectSeq(lines, LAMBDA l : ~Malformed(l))

\* C2: corrupt-line tolerance.  GET /stats on a log that holds exactly one
\* malformed line among its valid lines answers the statistics of the valid lines
\* alone: the malformed line is counted neither in total nor as correct.
C2_CorruptLineSkipped ==
    (/\ req.method = "GET"
     /\ resp.kind = "stats"
     /\ Len(ValidLines(log)) >= 1
     /\ Len(log) - Len(ValidLines(log)) = 1)
    => /\ resp.stats = get_training_stats(TRUE, ValidLines(log))
       /\ StatsCounts(logExists, log) = StatsCounts(TRUE, ValidLines(log))

\* the answer of the last call of classify
IsClassifyCall == req.method = "CALL" /\ resp.kind = "classify"
CallText == req.body.transcript.s

\* the score of intent i for transcript t: the greatest similarity of its examples
\* (nan if the encoding of t is the zero vector)
LabelScore(i, t) ==
    LET sims == {CosineSim(emb[examples[i].phrases[j]], emb[t]) :
                    j \in DOMAIN examples[i].phrases}
    IN  IF NaN \in sims THEN NaN ELSE CHOOSE m \in sims : \A x \in sims : m >= x

\* every similarity of transcript t is a number of the cosine range [-1, 1]
InCosineRange(t) ==
    \A i \in DOMAIN examples : \A j \in DOMAIN examples[i].phrases :
        LET c == CosineSim(emb[examples[i].phrases[j]], emb[t])
        IN  c # NaN /\ -100000 <= c /\ c <= 100000

\* C3: for every transcript whose similarities lie in the cosine range, also when
\* all of them are zero or negative, classify returns a label of the catalog (the
\* catalog is not empty, so never "unknown") and a finite confidence.
C3_LabelInCatalog ==
    (IsClassifyCall /\ InCosineRange(CallText))
    => (resp.intent \in Intents /\ resp.confidence # NaN)

\* C4: for every transcript whose similarities lie in the cosine range, the
\* confidence classify returns is the returned label's own greatest similarity,
\* and no label of the catalog has a greater score.
C4_GlobalMax ==
    (IsClassifyCall /\ InCosineRange(CallText))
    => /\ \A i \in DOMAIN examples : resp.confidence >= LabelScore(i, CallText)
       /\ \E i \in DOMAIN examples :
             /\ examples[i].intent = resp.intent
             /\ resp.confidence = LabelScore(i, CallText)

\* C5: determinism.  Every 200 answer of POST /classify for a transcript is the
\* (intent, confidence) of the first answer given for that transcript, whatever
\* was served in between.
C5_Deterministic ==
    (IsPost(req, "/classify") /\ resp.status = 200)
    => /\ resp.intent = first[req.body.transcript.s].intent
       /\ resp.confidence = first[req.body.transcript.s].confidence

\* C5 witness: a transcript is answered again after the log has grown since its
\* first answer
C5_Witness ==
    /\ IsPost(req, "/classify")
    /\ resp.status = 200
    /\ resp.intent \in Intents
    /\ first[req.body.transcript.s].at = 0
    /\ Len(log) >= 1

\* the intent whose examples hold phrase p
IntentOf(p) ==
    LET i == CHOOSE k \in DOMAIN examples :
                \E j \in DOMAIN examples[k].phrases : examples[k].phrases[j] = p
    IN  examples[i].intent

\* C6: similarity policy.  For a transcript that is a seed phrase classify returns
\* the intent of that phrase, with the self-similarity of its embedding, 1.0.
C6_SeedPhrase ==
    (IsClassifyCall /\ CallText \in Phrases)
    => /\ resp.intent = IntentOf(CallText)
       /\ resp.confidence = CosineSim(emb[CallText], emb[CallText])
       /\ resp.confidence = 100000

\* C6 witness: a seed phrase of the last intent is classified while an earlier
\* intent has a positive score for it, and another example of an intent has a
\* smaller similarity than the matching one
C6_Witness ==
    /\ IsClassifyCall
    /\ CallText = "annoying that"
    /\ resp.intent = "log_friction"
    /\ LabelScore(1, CallText) > 0
    /\ LabelScore(2, CallText) > 0

\* C7: missing-field defaults.  POST /log with a body that holds only a transcript
\* is answered 200 {logged: true}, unless the write fails, and appends exactly one
\* sample: that transcript, user_label "unknown", predicted "unknown", confidence 0,
\* was_overridden false.
C7_MissingFieldDefaults ==
    [][ (/\ IsPost(req', "/log")
         /\ req'.body = Body("object", Str("broken"), Absent, Absent, Absent, Absent)
         /\ req'.diskOk)
        =>
        /\ resp'.status = 200
        /\ resp'.kind = "logged"
        /\ Len(log') = Len(log) + 1
        /\ SubSeq(log', 1, Len(log)) = log
        /\ log'[Len(log')].kind = "object"
        /\ log'[Len(log')].transcript = Str("broken")
        /\ log'[Len(log')].user_label = Str("unknown")
        /\ log'[Len(log')].predicted = Str("unknown")
        /\ log'[Len(log')].confidence = Num(0)
        /\ log'[Len(log')].was_overridden = Bool(FALSE) ]_vars

\* C7 witness: such a request was served on a log that held lines
C7_Witness ==
    /\ IsPost(req, "/log")
    /\ req.body = Body("object", Str("broken"), Absent, Absent, Absent, Absent)
    /\ resp.status = 200
    /\ Len(log) >= 2
    /\ log[Len(log)].user_label = Str("unknown")

\* C8: POST /classify with a JSON object whose transcript is missing or "" is
\* answered 400, without a call of the encoder and with the log, the encoder and
\* the classifier left as they were; with a non-empty transcript it is answered 200
\* with an intent and a confidence, or 500 with neither if the encoding fails.
C8_ClassifyStatus ==
    [][ (IsPost(req', "/classify") /\ req'.body.kind = "object")
        =>
        LET transcript == req'.body.transcript
        IN  /\ (transcript \in {Absent, Str("")})
                  => /\ resp'.status = 400
                     /\ ~encoded'
                     /\ resp'.intent = ""
                     /\ UNCHANGED <<log, logExists, emb, classifier, first>>
            /\ (transcript.t = "str" /\ transcript.s # "")
                  => /\ encoded'
                     /\ req'.encOk => /\ resp'.status = 200
                                      /\ resp'.kind = "classification"
                                      /\ resp'.intent = classify(transcript.s).intent
                                      /\ resp'.confidence
                                            = round4(classify(transcript.s).score)
                     /\ ~req'.encOk => /\ resp'.status = 500
                                       /\ resp'.kind = "error"
                                       /\ resp'.intent = ""
                     /\ UNCHANGED <<log, logExists, emb, classifier>> ]_vars

\* C8 witness: an empty transcript was rejected after the service had answered a
\* classification and the log held lines
C8_Witness ==
    /\ IsPost(req, "/classify")
    /\ req.body.transcript = Str("")
    /\ resp.status = 400
    /\ ~encoded
    /\ Len(log) >= 1
    /\ first[OtherText] # NoResult

\* C9: POST /log with any JSON object as body is answered 200 unless the write to
\* the log fails; 500 is answered only when it does.
C9_LogAlwaysSucceeds ==
    (IsPost(req, "/log") /\ req.body.kind = "object")
    => /\ req.diskOk => resp.status = 200
       /\ resp.status = 500 => ~req.diskOk

\* C10: a body that is not JSON, or is JSON but no object, is answered 400 by
\* POST /classify and POST /log, never 500.
C10_MalformedBodyIs400 ==
    ((IsPost(req, "/classify") \/ IsPost(req, "/log"))
      /\ req.body.kind \in {"invalid", "nonobject"})
    => resp.status = 400

\* the four routes of do_POST and do_GET
Routes == {<<"POST", "/classify">>, <<"POST", "/log">>,
           <<"GET", "/health">>, <<"GET", "/stats">>}

IsHttp == req.method \in {"GET", "POST"} \cup OtherMethods

\* C11: a request whose method and path are none of the four routes is answered 404,
\* a known path with another method and a method other than GET and POST included.
C11_UnknownIs404 ==
    (IsHttp /\ <<req.method, req.path>> \notin Routes) => resp.status = 404

IsPrefix(s, t) == Len(s) <= Len(t) /\ SubSeq(t, 1, Len(s)) = s

\* C12: the feedback log is append-only.  No step of any operation removes or
\* rewrites a line: the lines before a step are a prefix of the lines after it, and
\* a file that exists stays.
C12_AppendOnly ==
    [][ /\ IsPrefix(log, log')
        /\ (logExists => logExists') ]_vars

\* C12 witness: a sample was appended to a file that held a damaged line left by
\* an earlier run, and that line is still the first line
C12_Witness ==
    /\ IsPost(req, "/log")
    /\ resp.status = 200
    /\ Len(log) = 2
    /\ log[1] = GarbageLine
    /\ log[2].kind = "object"

\* the sample log_sample builds from a /log body, lines 147-155
SampleOf(body) ==
    Sample(Get(body, "transcript", LogDefaults.transcript),
           Get(body, "user_label", LogDefaults.user_label),
           Get(body, "predicted", LogDefaults.predicted),
           Get(body, "confidence", LogDefaults.confidence),
           Get(body, "was_overridden", LogDefaults.was_overridden))

C14_LoadedOnce ==
    /\ (classifier = "None" => req = NoRequest)
    /\ built <= 1

\* C20: get_classifier returns one and the same instance for the whole process.
\* Every call returns the instance that was built first, whatever data_root the
\* call is given, and the global keeps that instance, whose log path is the one
\* of the data_root it was built with.
C20_OneInstance ==
    /\ \A t \in Threads :
          callers[t].ret # NoInstance => callers[t].ret.id = 1
    /\ singleton # NoInstance
          => /\ singleton.id = 1
             /\ singleton.training_log = TrainingLogPath(singleton.data_root)

\* the greatest score of the catalog for transcript t
TopScore(t) ==
    CHOOSE m \in {LabelScore(i, t) : i \in DOMAIN examples} :
        \A i \in DOMAIN examples : m >= LabelScore(i, t)

\* the catalog positions of the intents that have the greatest score
TopIntents(t) == {i \in DOMAIN examples : LabelScore(i, t) = TopScore(t)}

FirstOf(S) == CHOOSE i \in S : \A j \in S : i <= j

\* C15: tie-break.  When two or more intents share the greatest score of the
\* catalog, classify returns the one that comes first in the catalog.
C15_FirstOfTied ==
    (/\ IsClassifyCall
     /\ InCosineRange(CallText)
     /\ \E i, j \in TopIntents(CallText) : i # j)
    => resp.intent = examples[FirstOf(TopIntents(CallText))].intent

\* some intent of the catalog has a score strictly greater than 0.0 for t
SomePositive(t) ==
    \E i \in DOMAIN examples : LabelScore(i, t) # NaN /\ LabelScore(i, t) > 0

\* C19: classify returns ("unknown", 0.0) exactly when no intent of the catalog
\* has a score strictly greater than 0.0 (all similarities zero or negative, or
\* undefined because the transcript encodes to the zero vector); otherwise the
\* confidence is strictly positive and the label is an intent of the catalog.
C19_UnknownIffNoPositive ==
    IsClassifyCall
    => /\ (resp.intent = "unknown" /\ resp.confidence = 0) <=> ~SomePositive(CallText)
       /\ SomePositive(CallText)
             => /\ resp.confidence # NaN
                /\ resp.confidence > 0
                /\ resp.intent \in Intents

\* C19 witness: the greatest score of the catalog is exactly 0.0, which is not
\* strictly greater than the start value, and classify returned "unknown"
C19_Witness ==
    /\ IsClassifyCall
    /\ InCosineRange(CallText)
    /\ TopScore(CallText) = 0
    /\ resp.intent = "unknown"
    /\ resp.confidence = 0

\* C16: per-intent statistics are keyed by user_label, not by predicted.  A step
\* that appends a sample with user_label A and predicted B, two different strings,
\* changes the entry of A alone: no entry appears for B, every other entry is as
\* before.  A label that is no intent of the catalog is taken like any other.
C16_KeyedByUserLabel ==
    [][ (/\ IsPost(req', "/log")
         /\ resp'.status = 200
         /\ UserLabel(req'.body).t = "str"
         /\ Predicted(req'.body).t = "str"
         /\ UserLabel(req'.body) # Predicted(req'.body))
        =>
        LET A == UserLabel(req'.body)
            before == get_training_stats(logExists, log).by_intent
            after == get_training_stats(logExists', log').by_intent
        IN  /\ DOMAIN after = (DOMAIN before) \cup {A}
            /\ after[A].total = Entry(before, A).total + 1
            /\ after[A].correct = Entry(before, A).correct
            /\ \A k \in (DOMAIN before) \ {A} : after[k] = before[k] ]_vars

\* C16 witness: a sample whose user_label is no intent of the catalog and whose
\* predicted label has no entry was appended after a line of another label
C16_Witness ==
    /\ IsPost(req, "/log")
    /\ resp.status = 200
    /\ UserLabel(req.body) = Str("retired_label")
    /\ UserLabel(req.body).s \notin Intents
    /\ Predicted(req.body) = Str("add_wish")
    /\ Len(log) = 2
    /\ log[1].kind = "object"
    /\ log[1].user_label = Str("unknown")
    /\ DOMAIN get_training_stats(logExists, log).by_intent
          = {Str("unknown"), Str("retired_label")}

\* C17: only a POST /log answered 200 changes the feedback log.  Every other
\* request of the running service (POST /classify, GET /health, GET /stats, an
\* unknown route, any request answered 400, 404, 500 or 501) leaves the lines of the
\* log, the statistics computed from it, the encoder behind the catalog and the
\* singleton as they were, so what a later request is answered does not depend on
\* the requests that failed before it.
C17_OnlyLogWrites ==
    [][ (classifier = "loaded" /\ ~(IsPost(req', "/log") /\ resp'.status = 200))
        =>
        /\ log' = log
        /\ tail' = tail
        /\ get_training_stats(logExists', FileLines(log', tail'))
              = get_training_stats(logExists, FileLines(log, tail))
        /\ emb' = emb
        /\ classifier' = classifier
        /\ singleton' = singleton
        /\ built' = built ]_vars

\* C17 witness: a POST /log failed in its write on a log that holds a line
C17_Witness ==
    /\ IsPost(req, "/log")
    /\ resp.status = 500
    /\ resp.error = "OSError"
    /\ Len(log) >= 1
    /\ singleton = IntentClassifier(NoRoot, 1)

RECURSIVE SumOf(_, _, _)
SumOf(by_intent, labels, field) ==
    IF labels = {} THEN 0
    ELSE LET l == CHOOSE x \in labels : TRUE
         IN  by_intent[l][field] + SumOf(by_intent, labels \ {l}, field)

\* C18: consistency of the statistics.  On a log whose lines are all samples, as
\* POST /log writes them whatever the values of the body, GET /stats answers a
\* total that is the sum of the per-label totals, the number of correct samples is
\* the sum of the per-label correct counts, no label has more correct samples than
\* samples, and accuracy is 0 exactly when total is 0 or no sample is correct.
C18_StatsConsistent ==
    (/\ req.method = "GET"
     /\ resp.kind = "stats"
     /\ \A i \in DOMAIN log : ~Malformed(log[i]))
    =>
    LET by_intent == resp.stats.by_intent
        counts == StatsCounts(logExists, log)
    IN  /\ SumOf(by_intent, DOMAIN by_intent, "total") = resp.stats.total
        /\ SumOf(by_intent, DOMAIN by_intent, "correct") = counts.correct
        /\ \A l \in DOMAIN by_intent : by_intent[l].correct <= by_intent[l].total
        /\ (resp.stats.accuracy = 0) <=> (resp.stats.total = 0 \/ counts.correct = 0)

====
